---- MODULE Spec2Model ----
(***************************************************************************)
(* The per-call audio bridge of ai-voice-agent: a telephony (Twilio)       *)
(* media-stream socket relayed to a conversational-agent (ElevenLabs)      *)
(* socket.  Two variants of the bridge are modelled on the same state:     *)
(*                                                                         *)
(*   Spec         the queueing variant, dist/index.js:385-1672             *)
(*                (inline ElevenLabsClient with signed URL and start       *)
(*                promise, isReady / audioQueue in the registry entry)     *)
(*   SpecCleanup  the cleanupConnection variant, dist/index.js:1-383 with  *)
(*                dist/services/elevenlabs.js (connect timeout that        *)
(*                terminates, completion mark, cleanupConnection)          *)
(*                                                                         *)
(* One action is one callback of the Node event loop together with the     *)
(* promise continuations it schedules (they run before the next event).    *)
(***************************************************************************)
EXTENDS Integers, Sequences, FiniteSets, TLC

\* ---- bounds of the model ------------------------------------------------
MaxClients == 2      \* start frames accepted (ElevenLabsClient objects made)
MaxFrames == 2       \* inbound media frames with a payload
MaxAgentMsgs == 1    \* agent events that write a frame
MaxSvcFrames == 1    \* cleanupConnection variant: media frames relayed, both directions together

\* ---- program constants --------------------------------------------------
QueueCap == 50

Sids == {"S1", "S2"}
NoSid == "null"
Sockets == {1}          \* the signaling sockets followed
PingIds == {1, 2}

VARIABLES
    activeConnections,  \* the registry: a Map from streamSid to its entry
    conn,               \* per signaling socket: readyState and the handler's closure variables
    clients,            \* the ElevenLabsClient objects, in order of construction
    agentOut,           \* per client: the frames written to its agent socket
    twilioOut,          \* per signaling socket: the frames written to it
    nframes,            \* inbound media frames with a payload received so far
    nagent,             \* agent events with an effect received so far
    credsOk,            \* process.env holds ELEVENLABS_API_KEY and ELEVENLABS_AGENT_ID
    crashed,            \* an exception escaped an event handler: the process is gone
    inbound,            \* history: per registered id, the media frames that arrived for it
    readyAt,            \* history: per registered id, Len(inbound) when it was marked ready, or -1
    lastEvent           \* history: the event whose handler ran last (kept by SpecEvents only)

vars == <<activeConnections, conn, clients, agentOut, twilioOut, nframes, nagent,
          credsOk, crashed, inbound, readyAt, lastEvent>>

Conns == DOMAIN conn

\* ---- events: the record kept in lastEvent ---------------------------------
Ev(kind, who, t, id) == [kind |-> kind, who |-> who, type |-> t, id |-> id]

\* ---- frames -------------------------------------------------------------
\* a frame that loses its id (what carrying the payload or event_id excludes)
FrameWithoutId(t, s, i) == [type |-> t, sid |-> s, id |-> 0]

Frame(t, s, i) == [type |-> t, sid |-> s, id |-> i]

AudioIds(out) ==
    LET F[i \in 0..Len(out)] ==
            IF i = 0 THEN << >>
            ELSE IF out[i].type = "audio" THEN Append(F[i - 1], out[i].id) ELSE F[i - 1]
    IN  F[Len(out)]


LastN(q, n) == IF Len(q) <= n THEN q ELSE SubSeq(q, Len(q) - n + 1, Len(q))

\* ---- the registry (a JavaScript Map) ------------------------------------
Has(s) == s \in DOMAIN activeConnections

MapSet(m, s, e) == [x \in (DOMAIN m) \cup {s} |-> IF x = s THEN e ELSE m[x]]

MapDelete(m, s) == [x \in (DOMAIN m) \ {s} |-> m[x]]

\* ---- the signaling socket ----------------------------------------------
\* a send that puts the frame ahead of the frames written before (what the
\* synchronous send in the message callback excludes)
TwilioSendFirst(cn, out, k, f) ==
    IF cn[k].readyState = "OPEN" THEN [out EXCEPT ![k] = <<f>> \o @] ELSE out

\* a send that writes nothing (what the send call of the handler excludes)
TwilioSendNever(cn, out, k, f) == out

\* a send that writes the frame twice (what a single send call excludes)
TwilioSendTwice(cn, out, k, f) ==
    IF cn[k].readyState = "OPEN" THEN [out EXCEPT ![k] = Append(Append(@, f), f)] ELSE out

\* twilioSocket.send(frame): the frame goes out only on an open socket
TwilioSend(cn, out, k, f) ==
    IF cn[k].readyState = "OPEN" THEN [out EXCEPT ![k] = Append(@, f)] ELSE out

\* ---- ElevenLabsClient (queueing variant) --------------------------------
NewClient(s, k, custom) ==
    [streamSid |-> s, twilioSocket |-> k, custom |-> custom,
     ws |-> FALSE, isConnected |-> FALSE, readyState |-> "NONE",
     fetch |-> "none", promise |-> "pending", timer |-> "unset", endCalls |-> 0]

\* a sendAudio that writes its frame twice (what the single ws.send excludes)
sendAudioTwice(cl, out, payload) ==
    IF ~cl.isConnected \/ ~cl.ws THEN out
    ELSE IF cl.readyState # "OPEN" THEN out
    ELSE Append(Append(out, Frame("audio", cl.streamSid, payload)),
                Frame("audio", cl.streamSid, payload))

\* sendAudio: the frames written to the agent socket by one call
sendAudio(cl, out, payload) ==
    IF ~cl.isConnected \/ ~cl.ws THEN out
    ELSE IF cl.readyState # "OPEN" THEN out
    ELSE Append(out, Frame("audio", cl.streamSid, payload))

\* endConversation: the client after the call
endConversation(cl) ==
    IF ~cl.ws THEN [cl EXCEPT !.endCalls = @ + 1]
    ELSE [cl EXCEPT !.readyState = IF @ = "OPEN" THEN "CLOSING" ELSE @,
                    !.ws = FALSE, !.isConnected = FALSE, !.endCalls = @ + 1]

\* startConversation up to its first suspension: getSignedUrl throws without
\* credentials (the start promise rejects), else the fetch is in flight
startConversation(cl) ==
    IF credsOk THEN [cl EXCEPT !.fetch = "pending"]
    ELSE [cl EXCEPT !.promise = "rejected"]

\* a push without the overflow shift (what the length test excludes)
EnqueueUnbounded(q, payload) == Append(q, payload)

\* the queue after one push and the overflow shift
Enqueue(q, payload) ==
    LET p == Append(q, payload) IN IF Len(p) > QueueCap THEN Tail(p) ELSE p

\* the frames written by forEach(sendAudio) over the queue
RECURSIVE Drain(_, _, _)
Drain(cl, out, q) ==
    IF q = << >> THEN out ELSE Drain(cl, sendAudio(cl, out, Head(q)), Tail(q))

Init ==
    /\ activeConnections = << >>
    /\ conn = [k \in Sockets |-> [readyState |-> "OPEN", streamSid |-> NoSid]]
    /\ clients = << >>
    /\ agentOut = << >>
    /\ twilioOut = [k \in Sockets |-> << >>]
    /\ nframes = 0
    /\ nagent = 0
    /\ credsOk \in BOOLEAN
    /\ crashed = FALSE
    /\ inbound = [s \in Sids |-> << >>]
    /\ readyAt = [s \in Sids |-> -1]
    /\ lastEvent = Ev("none", 0, "", 0)

\* ---- signaling socket 'message': start ----------------------------------
OnStartB(k, sid, callSidOk, custom, maxClients) ==
    /\ ~crashed
    /\ conn[k].readyState = "OPEN"
    /\ conn' = [conn EXCEPT ![k].streamSid = sid]
    /\ IF sid = NoSid \/ ~callSidOk
       THEN UNCHANGED <<activeConnections, clients, agentOut, inbound, readyAt>>
       ELSE /\ Len(clients) < maxClients
            /\ LET c == Len(clients) + 1
               IN  /\ clients' = Append(clients, startConversation(NewClient(sid, k, custom)))
                   /\ agentOut' = Append(agentOut, << >>)
                   /\ activeConnections' =
                          MapSet(activeConnections, sid,
                                 [twilioSocket |-> k, elevenLabsClient |-> c,
                                  isReady |-> FALSE, audioQueue |-> << >>])
            /\ IF Has(sid) THEN UNCHANGED <<inbound, readyAt>>
               ELSE /\ inbound' = [inbound EXCEPT ![sid] = << >>]
                    /\ readyAt' = [readyAt EXCEPT ![sid] = -1]
    /\ UNCHANGED <<twilioOut, nframes, nagent, credsOk, crashed>>

OnStart(k, sid, callSidOk, custom) == OnStartB(k, sid, callSidOk, custom, MaxClients)

\* a media handler that queues every frame (what the isReady test excludes)
OnMediaAlwaysQueues(k, hasPayload, maxFrames) ==
    /\ ~crashed
    /\ conn[k].readyState = "OPEN"
    /\ LET s == conn[k].streamSid
       IN  IF s # NoSid /\ hasPayload /\ Has(s)
           THEN /\ nframes < maxFrames
                /\ nframes' = nframes + 1
                /\ inbound' = [inbound EXCEPT ![s] = Append(@, nframes + 1)]
                /\ activeConnections' =
                       [activeConnections EXCEPT ![s].audioQueue = Enqueue(@, nframes + 1)]
           ELSE UNCHANGED <<activeConnections, nframes, inbound>>
    /\ UNCHANGED <<conn, clients, agentOut, twilioOut, nagent, credsOk, crashed, readyAt>>

\* ---- signaling socket 'message': media ----------------------------------
OnMediaB(k, hasPayload, maxFrames) ==
    /\ ~crashed
    /\ conn[k].readyState = "OPEN"
    /\ LET s == conn[k].streamSid
       IN  IF s # NoSid /\ hasPayload /\ Has(s)
           THEN /\ nframes < maxFrames
                /\ nframes' = nframes + 1
                /\ inbound' = [inbound EXCEPT ![s] = Append(@, nframes + 1)]
                /\ LET e == activeConnections[s]
                       c == e.elevenLabsClient
                   IN  IF e.isReady
                       THEN /\ agentOut' = [agentOut EXCEPT ![c] = sendAudio(clients[c], @, nframes + 1)]
                            /\ UNCHANGED activeConnections
                       ELSE /\ activeConnections' =
                                   [activeConnections EXCEPT ![s].audioQueue = Enqueue(@, nframes + 1)]
                            /\ UNCHANGED agentOut
           ELSE UNCHANGED <<activeConnections, agentOut, nframes, inbound>>
    /\ UNCHANGED <<conn, clients, twilioOut, nagent, credsOk, crashed, readyAt>>

OnMedia(k, hasPayload) == OnMediaB(k, hasPayload, MaxFrames)

\* a stop handler that ends whatever is registered (what the lookup by the
\* handler's streamSid excludes)
OnStopClears(k) ==
    /\ ~crashed
    /\ conn[k].readyState = "OPEN"
    /\ clients' = [c \in DOMAIN clients |-> endConversation(clients[c])]
    /\ activeConnections' = << >>
    /\ UNCHANGED <<conn, agentOut, twilioOut, nframes, nagent, credsOk, crashed, inbound, readyAt>>

\* ---- signaling socket 'message': stop -----------------------------------
OnStop(k) ==
    /\ ~crashed
    /\ conn[k].readyState = "OPEN"
    /\ LET s == conn[k].streamSid
       IN  IF s # NoSid /\ Has(s)
           THEN LET c == activeConnections[s].elevenLabsClient
                IN  /\ clients' = [clients EXCEPT ![c] = endConversation(@)]
                    /\ activeConnections' = MapDelete(activeConnections, s)
           ELSE UNCHANGED <<activeConnections, clients>>
    /\ UNCHANGED <<conn, agentOut, twilioOut, nframes, nagent, credsOk, crashed, inbound, readyAt>>

\* a handler that gives up the socket on a frame it cannot parse (what the
\* try/catch around JSON.parse excludes)
OnMalformedCloses(k) ==
    /\ ~crashed
    /\ conn[k].readyState = "OPEN"
    /\ conn' = [conn EXCEPT ![k].readyState = "CLOSED"]
    /\ UNCHANGED <<activeConnections, clients, agentOut, twilioOut, nframes, nagent,
                   credsOk, crashed, inbound, readyAt>>

\* ---- signaling socket 'message': a frame JSON.parse rejects -------------
OnMalformed(k) ==
    /\ ~crashed
    /\ conn[k].readyState = "OPEN"
    /\ UNCHANGED <<activeConnections, conn, clients, agentOut, twilioOut, nframes, nagent,
                   credsOk, crashed, inbound, readyAt>>

\* ---- signaling socket 'close' -------------------------------------------
OnClose(k) ==
    /\ ~crashed
    /\ conn[k].readyState # "CLOSED"
    /\ conn' = [conn EXCEPT ![k].readyState = "CLOSED"]
    /\ LET s == conn[k].streamSid
       IN  IF s # NoSid /\ Has(s)
           THEN LET c == activeConnections[s].elevenLabsClient
                IN  /\ clients' = [clients EXCEPT ![c] = endConversation(@)]
                    /\ activeConnections' = MapDelete(activeConnections, s)
           ELSE UNCHANGED <<activeConnections, clients>>
    /\ UNCHANGED <<agentOut, twilioOut, nframes, nagent, credsOk, crashed, inbound, readyAt>>

\* ---- signaling socket 'error' -------------------------------------------
\* the handler only logs; the socket's 'close' comes next, before any other
\* event, so that the registry entry is removed by the 'close' handler
OnError(k) ==
    /\ ~crashed
    /\ conn[k].readyState = "OPEN"
    /\ conn' = [conn EXCEPT ![k].readyState = "CLOSED"]
    /\ LET s == conn[k].streamSid
       IN  IF s # NoSid /\ Has(s)
           THEN LET c == activeConnections[s].elevenLabsClient
                IN  /\ clients' = [clients EXCEPT ![c] = endConversation(@)]
                    /\ activeConnections' = MapDelete(activeConnections, s)
           ELSE UNCHANGED <<activeConnections, clients>>
    /\ UNCHANGED <<agentOut, twilioOut, nframes, nagent, credsOk, crashed, inbound, readyAt>>

\* ---- the signed-URL fetch settles ---------------------------------------
FetchDone(c, ok) ==
    /\ ~crashed
    /\ c \in 1..Len(clients)
    /\ clients[c].fetch = "pending"
    /\ clients' = [clients EXCEPT ![c] =
           IF ok
           THEN [@ EXCEPT !.fetch = "ok", !.ws = TRUE, !.readyState = "CONNECTING", !.timer = "armed"]
           ELSE [@ EXCEPT !.fetch = "failed", !.promise = "rejected"]]
    /\ UNCHANGED <<activeConnections, conn, agentOut, twilioOut, nframes, nagent,
                   credsOk, crashed, inbound, readyAt>>

\* ---- agent socket 'open' ------------------------------------------------
\* first listener: isConnected = true, this.ws.send(config) (a TypeError when
\* this.ws is null, which nothing catches); second listener: clearTimeout,
\* resolve(), and the .then of the start handler
AgentOpen(c) ==
    /\ ~crashed
    /\ c \in 1..Len(clients)
    /\ clients[c].readyState = "CONNECTING"
    /\ IF ~clients[c].ws
       THEN /\ crashed' = TRUE
            /\ clients' = [clients EXCEPT ![c].readyState = "OPEN", ![c].isConnected = TRUE]
            /\ UNCHANGED <<activeConnections, agentOut, inbound, readyAt>>
       ELSE LET cl  == [clients[c] EXCEPT !.readyState = "OPEN", !.isConnected = TRUE,
                                           !.timer = IF @ = "armed" THEN "cleared" ELSE @,
                                           !.promise = IF @ = "pending" THEN "resolved" ELSE @]
                out == Append(agentOut[c], Frame("config", cl.streamSid, IF cl.custom THEN 1 ELSE 0))
                s   == conn[cl.twilioSocket].streamSid
            IN  /\ crashed' = FALSE
                /\ clients' = [clients EXCEPT ![c] = cl]
                /\ IF clients[c].promise = "pending" /\ s # NoSid /\ Has(s)
                   THEN /\ activeConnections' =
                               [activeConnections EXCEPT ![s].isReady = TRUE, ![s].audioQueue = << >>]
                        /\ agentOut' = [agentOut EXCEPT ![c] = Drain(cl, out, activeConnections[s].audioQueue)]
                        /\ readyAt' = [readyAt EXCEPT ![s] = IF @ = -1 THEN Len(inbound[s]) ELSE @]
                   ELSE /\ agentOut' = [agentOut EXCEPT ![c] = out]
                        /\ UNCHANGED <<activeConnections, readyAt>>
                /\ UNCHANGED inbound
    /\ UNCHANGED <<conn, twilioOut, nframes, nagent, credsOk>>

\* ---- the 10 s timer of the start promise --------------------------------
Timeout(c) ==
    /\ ~crashed
    /\ c \in 1..Len(clients)
    /\ clients[c].timer = "armed"
    /\ clients' = [clients EXCEPT ![c].timer = "fired",
                                  ![c].promise = IF ~clients[c].isConnected /\ @ = "pending"
                                                 THEN "rejected" ELSE @]
    /\ UNCHANGED <<activeConnections, conn, agentOut, twilioOut, nframes, nagent,
                   credsOk, crashed, inbound, readyAt>>

\* ---- agent socket 'error' followed by its 'close' -----------------------
AgentError(c) ==
    /\ ~crashed
    /\ c \in 1..Len(clients)
    /\ clients[c].readyState \in {"CONNECTING", "OPEN"}
    /\ clients' = [clients EXCEPT ![c].readyState = "CLOSED",
                                  ![c].isConnected = FALSE,
                                  ![c].timer = IF @ = "armed" THEN "cleared" ELSE @,
                                  ![c].promise = IF @ = "pending" THEN "rejected" ELSE @]
    /\ UNCHANGED <<activeConnections, conn, agentOut, twilioOut, nframes, nagent,
                   credsOk, crashed, inbound, readyAt>>

\* ---- agent socket 'close' -----------------------------------------------
AgentClose(c) ==
    /\ ~crashed
    /\ c \in 1..Len(clients)
    /\ clients[c].readyState \in {"OPEN", "CLOSING"}
    /\ clients' = [clients EXCEPT ![c].readyState = "CLOSED", ![c].isConnected = FALSE]
    /\ UNCHANGED <<activeConnections, conn, agentOut, twilioOut, nframes, nagent,
                   credsOk, crashed, inbound, readyAt>>

\* ---- agent socket 'message' ---------------------------------------------
AgentMsgTypes == {"conversation_initiation_metadata", "audio_chunk", "audio_event", "audio_empty",
                  "interruption", "ping", "ping_noid", "agent_response", "user_transcript",
                  "unknown", "malformed"}

\* the event_id of a ping; the other events carry none
EventIds(t) == IF t = "ping" THEN PingIds ELSE {0}

\* ids are interchangeable: a start frame names S2 only once S1 has been used
FreshSids == IF \E i \in 1..Len(clients) : clients[i].streamSid = "S1" THEN Sids ELSE {"S1"}

\* a handler that relays every event as a media frame (what the switch on
\* message.type excludes)
AgentMessageRelaysAll(c, t, pid, maxMsgs) ==
    /\ ~crashed
    /\ c \in 1..Len(clients)
    /\ clients[c].readyState \in {"OPEN", "CLOSING"}
    /\ nagent < maxMsgs
    /\ nagent' = nagent + 1
    /\ twilioOut' = TwilioSend(conn, twilioOut, clients[c].twilioSocket,
                               Frame("media", clients[c].streamSid, nagent + 1))
    /\ UNCHANGED <<activeConnections, conn, clients, agentOut, nframes, credsOk, crashed,
                   inbound, readyAt>>

AgentMessageB(c, t, pid, maxMsgs) ==
    /\ ~crashed
    /\ c \in 1..Len(clients)
    /\ clients[c].readyState \in {"OPEN", "CLOSING"}
    /\ LET cl == clients[c]
           k  == cl.twilioSocket
       IN  CASE t \in {"audio_chunk", "audio_event"} ->
                    /\ nagent < maxMsgs
                    /\ nagent' = nagent + 1
                    /\ twilioOut' = TwilioSend(conn, twilioOut, k, Frame("media", cl.streamSid, nagent + 1))
                    /\ UNCHANGED agentOut
             [] t = "interruption" ->
                    /\ nagent < maxMsgs
                    /\ nagent' = nagent + 1
                    /\ twilioOut' = TwilioSend(conn, twilioOut, k, Frame("clear", cl.streamSid, nagent + 1))
                    /\ UNCHANGED agentOut
             [] t = "ping" ->
                    /\ nagent < maxMsgs
                    /\ nagent' = nagent + 1
                    /\ agentOut' = [agentOut EXCEPT ![c] =
                           IF cl.ws /\ cl.readyState = "OPEN"
                           THEN Append(@, Frame("pong", cl.streamSid, pid)) ELSE @]
                    /\ UNCHANGED twilioOut
             [] OTHER -> UNCHANGED <<agentOut, twilioOut, nagent>>
    /\ UNCHANGED <<activeConnections, conn, clients, nframes, credsOk, crashed, inbound, readyAt>>

AgentMessage(c, t, pid) == AgentMessageB(c, t, pid, MaxAgentMsgs)

Next ==
    \/ \E k \in Conns, sid \in FreshSids \cup {NoSid}, callSidOk \in BOOLEAN :
           OnStart(k, sid, callSidOk, FALSE) /\ UNCHANGED lastEvent
    \/ \E k \in Conns, hasPayload \in BOOLEAN : OnMedia(k, hasPayload) /\ UNCHANGED lastEvent
    \/ \E k \in Conns : OnStop(k) /\ UNCHANGED lastEvent
    \/ \E k \in Conns : OnMalformed(k) /\ UNCHANGED lastEvent
    \/ \E k \in Conns : OnClose(k) /\ UNCHANGED lastEvent
    \/ \E k \in Conns : OnError(k) /\ UNCHANGED lastEvent
    \/ \E c \in 1..MaxClients, ok \in BOOLEAN : FetchDone(c, ok) /\ UNCHANGED lastEvent
    \/ \E c \in 1..MaxClients : AgentOpen(c) /\ UNCHANGED lastEvent
    \/ \E c \in 1..MaxClients : Timeout(c) /\ UNCHANGED lastEvent
    \/ \E c \in 1..MaxClients : AgentError(c) /\ UNCHANGED lastEvent
    \/ \E c \in 1..MaxClients : AgentClose(c) /\ UNCHANGED lastEvent
    \/ \E c \in 1..MaxClients, t \in AgentMsgTypes : \E pid \in EventIds(t) : AgentMessage(c, t, pid) /\ UNCHANGED lastEvent

Spec == Init /\ [][Next]_vars

(***************************************************************************)
(* The cleanupConnection variant: dist/index.js:266-370 with the           *)
(* ElevenLabsClient of dist/services/elevenlabs.js.  Its registry entry    *)
(* has no isReady and no audioQueue (they stay FALSE and empty here), its  *)
(* startConversation catches every error, so its promise never rejects.    *)
(***************************************************************************)

\* startConversation: without credentials the error is caught and logged and
\* no socket is made; else the socket is connecting and the 10 s timer armed
startConversationSvc(cl) ==
    IF credsOk
    THEN [cl EXCEPT !.ws = TRUE, !.readyState = "CONNECTING", !.timer = "armed", !.promise = "resolved"]
    ELSE [cl EXCEPT !.promise = "resolved"]

\* sendAudio without its tests of isConnected, ws and readyState
sendAudioUnguarded(cl, out, payload) ==
    Append(out, Frame("audio", cl.streamSid, payload))

\* sendAudio, the client: nothing is written unless the socket is there,
\* connected and open
sendAudioSvc(cl, out, payload) ==
    IF ~cl.isConnected \/ ~cl.ws THEN out
    ELSE IF cl.readyState # "OPEN" THEN out
    ELSE Append(out, Frame("audio", cl.streamSid, payload))

\* endConversation, the client: close() an open socket, terminate() a
\* connecting one (its 'close' follows at once), forget the socket
endConversationSvc(cl) ==
    IF cl.ws
    THEN [cl EXCEPT !.readyState = CASE @ = "OPEN" -> "CLOSING"
                                     [] @ = "CONNECTING" -> "CLOSED"
                                     [] OTHER -> @,
                    !.ws = FALSE, !.isConnected = FALSE, !.endCalls = @ + 1]
    ELSE [cl EXCEPT !.isConnected = FALSE, !.endCalls = @ + 1]

\* the mark written whatever the state of the signaling socket (what the readyState test of MarkSent prevents)
MarkSentAlways(cn, out, cl) ==
    [out EXCEPT ![cl.twilioSocket] = Append(@, Frame("mark", cl.streamSid, 0))]

\* endConversation, the completion mark, sent when the signaling socket is open
MarkSent(cn, out, cl) ==
    TwilioSend(cn, out, cl.twilioSocket, Frame("mark", cl.streamSid, 0))

\* cleanupConnection without its activeConnections.delete (what the delete in the finally block prevents)
cleanupConnectionNoDelete(cn, sid) ==
    IF sid # NoSid /\ Has(sid)
    THEN LET c == activeConnections[sid].elevenLabsClient
         IN  /\ clients' = [clients EXCEPT ![c] = endConversationSvc(@)]
             /\ twilioOut' = MarkSent(cn, twilioOut, clients[c])
             /\ UNCHANGED activeConnections
    ELSE UNCHANGED <<activeConnections, clients, twilioOut>>

\* cleanupConnection(sid) with the signaling sockets in state cn
cleanupConnection(cn, sid) ==
    IF sid # NoSid /\ Has(sid)
    THEN LET c == activeConnections[sid].elevenLabsClient
         IN  /\ clients' = [clients EXCEPT ![c] = endConversationSvc(@)]
             /\ twilioOut' = MarkSent(cn, twilioOut, clients[c])
             /\ activeConnections' = MapDelete(activeConnections, sid)
    ELSE UNCHANGED <<activeConnections, clients, twilioOut>>

CleanupOnStart(k, sid, callSidOk, custom) ==
    /\ ~crashed
    /\ conn[k].readyState = "OPEN"
    /\ IF sid = NoSid \/ ~callSidOk
       THEN /\ conn' = [conn EXCEPT ![k].streamSid = sid]
            /\ UNCHANGED <<activeConnections, clients, agentOut>>
       ELSE /\ Len(clients) < MaxClients
            /\ conn' = [conn EXCEPT ![k].streamSid = sid]
            /\ clients' = Append(clients, startConversationSvc(NewClient(sid, k, custom)))
            /\ agentOut' = Append(agentOut, << >>)
            /\ activeConnections' =
                   MapSet(activeConnections, sid,
                          [twilioSocket |-> k, elevenLabsClient |-> Len(clients) + 1,
                           isReady |-> FALSE, audioQueue |-> << >>])
    /\ UNCHANGED <<twilioOut, nframes, nagent, credsOk, crashed, inbound, readyAt>>

CleanupOnMedia(k, hasPayload) ==
    /\ ~crashed
    /\ conn[k].readyState = "OPEN"
    /\ LET s == conn[k].streamSid
       IN  IF s # NoSid /\ hasPayload /\ Has(s)
           THEN /\ nframes + nagent < MaxSvcFrames
                /\ nframes' = nframes + 1
                /\ LET c == activeConnections[s].elevenLabsClient
                   IN  agentOut' = [agentOut EXCEPT ![c] = sendAudioSvc(clients[c], @, nframes + 1)]
           ELSE UNCHANGED <<agentOut, nframes>>
    /\ UNCHANGED <<activeConnections, conn, clients, twilioOut, nagent, credsOk, crashed,
                   inbound, readyAt>>

CleanupOnStop(k) ==
    /\ ~crashed
    /\ conn[k].readyState = "OPEN"
    /\ cleanupConnection(conn, conn[k].streamSid)
    /\ UNCHANGED <<conn, agentOut, nframes, nagent, credsOk, crashed, inbound, readyAt>>

CleanupOnClose(k) ==
    /\ ~crashed
    /\ conn[k].readyState # "CLOSED"
    /\ conn' = [conn EXCEPT ![k].readyState = "CLOSED"]
    /\ cleanupConnection(conn', conn[k].streamSid)
    /\ UNCHANGED <<agentOut, nframes, nagent, credsOk, crashed, inbound, readyAt>>

\* 'error': the socket is already closing when the handler runs; its 'close'
\* comes next, before any other event, and finds the entry gone
CleanupOnError(k) ==
    /\ ~crashed
    /\ conn[k].readyState = "OPEN"
    /\ conn' = [conn EXCEPT ![k].readyState = "CLOSED"]
    /\ cleanupConnection(conn', conn[k].streamSid)
    /\ UNCHANGED <<agentOut, nframes, nagent, credsOk, crashed, inbound, readyAt>>

\* an 'open' callback that leaves the connect timer armed (what its
\* clearTimeout excludes)
SvcOpenKeepsTimer(c) ==
    /\ ~crashed
    /\ c \in 1..Len(clients)
    /\ clients[c].readyState = "CONNECTING"
    /\ clients' = [clients EXCEPT ![c].readyState = "OPEN", ![c].isConnected = TRUE]
    /\ agentOut' = [agentOut EXCEPT ![c] =
           IF clients[c].ws
           THEN Append(@, Frame("config", clients[c].streamSid, IF clients[c].custom THEN 1 ELSE 0))
           ELSE @]
    /\ UNCHANGED <<activeConnections, conn, twilioOut, nframes, nagent, credsOk, crashed,
                   inbound, readyAt>>

\* agent socket 'open': clearTimeout, handleOpen
SvcOpen(c) ==
    /\ ~crashed
    /\ c \in 1..Len(clients)
    /\ clients[c].readyState = "CONNECTING"
    /\ clients' = [clients EXCEPT ![c].readyState = "OPEN", ![c].isConnected = TRUE,
                                  ![c].timer = IF @ = "armed" THEN "cleared" ELSE @]
    /\ agentOut' = [agentOut EXCEPT ![c] =
           IF clients[c].ws
           THEN Append(@, Frame("config", clients[c].streamSid, IF clients[c].custom THEN 1 ELSE 0))
           ELSE @]
    /\ UNCHANGED <<activeConnections, conn, twilioOut, nframes, nagent, credsOk, crashed,
                   inbound, readyAt>>

\* connectionTimeout: terminate a socket that is not connected, forget it
SvcTimeout(c) ==
    /\ ~crashed
    /\ c \in 1..Len(clients)
    /\ clients[c].timer = "armed"
    /\ clients' = [clients EXCEPT ![c] =
           IF ~@.isConnected /\ @.ws
           THEN [@ EXCEPT !.timer = "fired", !.ws = FALSE,
                          !.readyState = IF @ = "CONNECTING" THEN "CLOSED" ELSE @]
           ELSE [@ EXCEPT !.timer = "fired"]]
    /\ UNCHANGED <<activeConnections, conn, agentOut, twilioOut, nframes, nagent, credsOk,
                   crashed, inbound, readyAt>>

\* agent socket 'error' (handleError logs) followed by its 'close' (handleClose)
SvcError(c) ==
    /\ ~crashed
    /\ c \in 1..Len(clients)
    /\ clients[c].readyState \in {"CONNECTING", "OPEN"}
    /\ clients' = [clients EXCEPT ![c].readyState = "CLOSED", ![c].isConnected = FALSE]
    /\ UNCHANGED <<activeConnections, conn, agentOut, twilioOut, nframes, nagent, credsOk,
                   crashed, inbound, readyAt>>

\* agent socket 'close': handleClose
SvcClose(c) ==
    /\ ~crashed
    /\ c \in 1..Len(clients)
    /\ clients[c].readyState \in {"OPEN", "CLOSING"}
    /\ clients' = [clients EXCEPT ![c].readyState = "CLOSED", ![c].isConnected = FALSE]
    /\ UNCHANGED <<activeConnections, conn, agentOut, twilioOut, nframes, nagent, credsOk,
                   crashed, inbound, readyAt>>

SvcMsgTypes == {"audio", "agent_response", "user_transcript", "error", "malformed"}

\* agent socket 'message': handleMessage
SvcMessage(c, t) ==
    /\ ~crashed
    /\ c \in 1..Len(clients)
    /\ clients[c].readyState \in {"OPEN", "CLOSING"}
    /\ IF t = "audio"
       THEN /\ nframes + nagent < MaxSvcFrames
            /\ nagent' = nagent + 1
            /\ twilioOut' = TwilioSend(conn, twilioOut, clients[c].twilioSocket,
                                       Frame("media", clients[c].streamSid, nagent + 1))
       ELSE UNCHANGED <<twilioOut, nagent>>
    /\ UNCHANGED <<activeConnections, conn, clients, agentOut, nframes, credsOk, crashed,
                   inbound, readyAt>>

NextCleanup ==
    \/ \E k \in Conns, sid \in FreshSids \cup {NoSid}, callSidOk \in BOOLEAN :
           CleanupOnStart(k, sid, callSidOk, FALSE) /\ UNCHANGED lastEvent
    \/ \E k \in Conns, hasPayload \in BOOLEAN : CleanupOnMedia(k, hasPayload) /\ UNCHANGED lastEvent
    \/ \E k \in Conns : CleanupOnStop(k) /\ UNCHANGED lastEvent
    \/ \E k \in Conns : OnMalformed(k) /\ UNCHANGED lastEvent
    \/ \E k \in Conns : CleanupOnClose(k) /\ UNCHANGED lastEvent
    \/ \E k \in Conns : CleanupOnError(k) /\ UNCHANGED lastEvent
    \/ \E c \in 1..MaxClients : SvcOpen(c) /\ UNCHANGED lastEvent
    \/ \E c \in 1..MaxClients : SvcTimeout(c) /\ UNCHANGED lastEvent
    \/ \E c \in 1..MaxClients : SvcError(c) /\ UNCHANGED lastEvent
    \/ \E c \in 1..MaxClients : SvcClose(c) /\ UNCHANGED lastEvent
    \/ \E c \in 1..MaxClients, t \in SvcMsgTypes : SvcMessage(c, t) /\ UNCHANGED lastEvent

SpecCleanup == Init /\ [][NextCleanup]_vars

(***************************************************************************)
(* The queueing variant with the handled events on record: the same        *)
(* handlers as Spec, each step noting in lastEvent which event it handled,  *)
(* so that a handler that changes nothing is still a visible step.  One    *)
(* call is followed: a start frame is accepted while no client exists;     *)
(* start frames that fail validation arrive at any time.                   *)
(***************************************************************************)
MaxEvFrames == 1     \* inbound media frames with a payload and a registered session
MaxEvMsgs == 2       \* agent events that write a frame

\* the start frames of one call: no second valid start frame
OneCall(sid, callSidOk) == sid = NoSid \/ ~callSidOk \/ clients = << >>

NextEvents ==
    \/ \E k \in Conns, sid \in FreshSids \cup {NoSid}, callSidOk \in BOOLEAN :
           /\ OneCall(sid, callSidOk)
           /\ OnStartB(k, sid, callSidOk, FALSE, MaxClients)
           /\ lastEvent' = Ev("start", k, sid, 0)
    \/ \E k \in Conns, hasPayload \in BOOLEAN :
           OnMediaB(k, hasPayload, MaxEvFrames)
               /\ lastEvent' = Ev("media", k, IF hasPayload THEN "payload" ELSE "empty", 0)
    \/ \E k \in Conns : OnStop(k) /\ lastEvent' = Ev("stop", k, "", 0)
    \/ \E k \in Conns : OnMalformed(k) /\ lastEvent' = Ev("malformed", k, "", 0)
    \/ \E k \in Conns : OnClose(k) /\ lastEvent' = Ev("close", k, "", 0)
    \/ \E k \in Conns : OnError(k) /\ lastEvent' = Ev("error", k, "", 0)
    \/ \E c \in 1..Len(clients), ok \in BOOLEAN : FetchDone(c, ok) /\ lastEvent' = Ev("fetch", c, "", 0)
    \/ \E c \in 1..Len(clients) : AgentOpen(c) /\ lastEvent' = Ev("open", c, "", 0)
    \/ \E c \in 1..Len(clients) : Timeout(c) /\ lastEvent' = Ev("timeout", c, "", 0)
    \/ \E c \in 1..Len(clients) : AgentError(c) /\ lastEvent' = Ev("agent error", c, "", 0)
    \/ \E c \in 1..Len(clients) : AgentClose(c) /\ lastEvent' = Ev("agent close", c, "", 0)
    \/ \E c \in 1..Len(clients), t \in AgentMsgTypes : \E pid \in EventIds(t) :
           AgentMessageB(c, t, pid, MaxEvMsgs) /\ lastEvent' = Ev("message", c, t, pid)

SpecEvents == Init /\ [][NextEvents]_vars

(***************************************************************************)
(* The queueing variant while the agent is unreachable: the request for    *)
(* the signed URL does not return, so that no session becomes ready and    *)
(* the media frames of the call pile up in audioQueue.  One session id is  *)
(* in use; its start frame may be repeated.                                *)
(***************************************************************************)
MaxQueueFrames == 52    \* inbound media frames with a payload

NextQueue ==
    \/ \E k \in Conns, sid \in {"S1", NoSid}, callSidOk \in BOOLEAN :
           OnStart(k, sid, callSidOk, FALSE) /\ UNCHANGED lastEvent
    \/ \E k \in Conns, hasPayload \in BOOLEAN :
           OnMediaB(k, hasPayload, MaxQueueFrames) /\ UNCHANGED lastEvent
    \/ \E k \in Conns : OnStop(k) /\ UNCHANGED lastEvent
    \/ \E k \in Conns : OnMalformed(k) /\ UNCHANGED lastEvent
    \/ \E k \in Conns : OnClose(k) /\ UNCHANGED lastEvent
    \/ \E k \in Conns : OnError(k) /\ UNCHANGED lastEvent

SpecQueue == Init /\ [][NextQueue]_vars

(***************************************************************************)
(* Properties                                                              *)
(***************************************************************************)
ClientIds == 1..Len(clients)

\* the client the registry holds for s
ClientOf(s) == activeConnections[s].elevenLabsClient

\* s is registered, marked ready, and its registered client's socket is open
Streaming(s) ==
    /\ Has(s)
    /\ activeConnections[s].isReady
    /\ clients[ClientOf(s)].isConnected
    /\ clients[ClientOf(s)].ws
    /\ clients[ClientOf(s)].readyState = "OPEN"

\* frames of type t carrying session id s, over a family of frame logs
CountFor(outs, t, s) ==
    LET idx == UNION {{<<d, i>> : i \in DOMAIN outs[d]} : d \in DOMAIN outs}
    IN  Cardinality({p \in idx : outs[p[1]][p[2]].type = t /\ outs[p[1]][p[2]].sid = s})

\* C1: the inbound frames sent to a streaming session's agent transport are
\* the frames that were queued when it became ready (the last QueueCap of the
\* frames that arrived before), in arrival order, followed by the frames that
\* arrived after, in arrival order, each once.
C1_ForwardedInOrder ==
    \A s \in Sids :
        (Streaming(s) /\ readyAt[s] >= 0) =>
            AudioIds(agentOut[ClientOf(s)]) =
                LastN(SubSeq(inbound[s], 1, readyAt[s]), QueueCap)
                    \o SubSeq(inbound[s], readyAt[s] + 1, Len(inbound[s]))

\* a step in which a start frame naming s is accepted: a client is made for s
StartAccepted(s) ==
    /\ Len(clients') = Len(clients) + 1
    /\ clients'[Len(clients')].streamSid = s

\* C2: a start frame for an id that is in the registry is rejected: no agent
\* client is made for it and the registry entry stays as it was.
C2_DuplicateStartRejected ==
    [][\A s \in Sids : (Has(s) /\ StartAccepted(s)) =>
            /\ clients' = clients
            /\ activeConnections'[s] = activeConnections[s]]_vars

\* C3: whatever cleanup triggers fire and in whatever order, the close work
\* is done once: endConversation runs at most once on a client, a client it
\* ran on is no longer in the registry, and no session gets more completion
\* marks than it has ended clients.
C3_CleanupOnce ==
    /\ \A c \in ClientIds : clients[c].endCalls <= 1
    /\ \A c \in ClientIds :
           clients[c].endCalls = 1 => ~(\E s \in DOMAIN activeConnections : ClientOf(s) = c)
    /\ \A s \in Sids :
           CountFor(twilioOut, "mark", s)
               <= Cardinality({c \in ClientIds : clients[c].streamSid = s /\ clients[c].endCalls = 1})

\* C3 witness: a stop frame did the cleanup (the mark went out on the open
\* socket) and the socket's close then fired for the same id.
C3_Witness ==
    \E c \in ClientIds :
        /\ clients[c].endCalls = 1
        /\ conn[clients[c].twilioSocket].readyState = "CLOSED"
        /\ conn[clients[c].twilioSocket].streamSid = clients[c].streamSid
        /\ CountFor(twilioOut, "mark", clients[c].streamSid) = 1

\* the connect attempt of client c failed: the signed-URL fetch failed, or the
\* socket reported an error before it opened; nothing of c is pending
ConnectFailed(c) ==
    \/ clients[c].fetch = "failed"
    \/ /\ clients[c].readyState = "CLOSED"
       /\ clients[c].promise = "rejected"
       /\ clients[c].timer = "cleared"

\* C4: once the connect attempt of a session's agent client has failed, the
\* session is closed: its id is not in the registry.
C4_ConnectFailureCloses ==
    \A s \in Sids : Has(s) => ~ConnectFailed(ClientOf(s))

\* C5: once the connect timer of a client has fired, its agent socket is
\* terminated and its session is not in the registry.
C5_TimeoutCloses ==
    \A c \in ClientIds :
        clients[c].timer = "fired" =>
            /\ clients[c].readyState = "CLOSED"
            /\ ~(\E s \in DOMAIN activeConnections : ClientOf(s) = c)

\* a step of the stop handler that removes s: the only step that takes an id
\* out of the registry without an event of a signaling socket
StopHandled(s) == Has(s) /\ ~(s \in DOMAIN activeConnections') /\ conn' = conn

\* C6: after a stop frame for a streaming session, the id is not in the
\* registry, the agent socket is closed or closing, and the signaling socket
\* is no longer open.
C6_StopClosesBoth ==
    [][\A s \in Sids : (Streaming(s) /\ StopHandled(s)) =>
            /\ clients'[ClientOf(s)].readyState \in {"CLOSING", "CLOSED"}
            /\ conn'[activeConnections[s].twilioSocket].readyState # "OPEN"]_vars

SessionClosed(s) == ~Has(s) \/ clients[ClientOf(s)].readyState = "CLOSED"

\* C8: once a session is Closing or Closed no audio is forwarded for it: no
\* media frame of it is written to a signaling socket and no audio frame of it
\* to an agent socket.
C8_NoAudioAfterClose ==
    [][\A s \in Sids : SessionClosed(s) =>
            /\ CountFor(twilioOut', "media", s) = CountFor(twilioOut, "media", s)
            /\ CountFor(agentOut', "audio", s) = CountFor(agentOut, "audio", s)]_vars

\* C9: a session whose agent socket had opened and has closed (or failed) is
\* not left in the registry.
C9_AgentCloseEndsSession ==
    \A s \in Sids :
        Has(s) => ~(clients[ClientOf(s)].promise = "resolved" /\ clients[ClientOf(s)].readyState = "CLOSED")

\* C10: once a signaling socket has closed (or failed), no session registered
\* for it is left in the registry.
C10_SignalingCloseCleans ==
    \A s \in Sids : Has(s) => conn[activeConnections[s].twilioSocket].readyState = "OPEN"

\* C11: no exception escapes an event handler: whatever the order of frames,
\* agent events, timers and cleanups, the process keeps running.
C11_NoEscapingException == ~crashed

\* the step handles agent event t (event_id id) of client c
AgentEvent(c, t, id) == lastEvent' = Ev("message", c, t, id)

\* the frames the agent side caused on the signaling sockets, media and clear,
\* stand in the order in which their agent events were received
RelayOrder(outs) ==
    \A k \in DOMAIN outs : \A i, j \in DOMAIN outs[k] :
        (i < j /\ outs[k][i].type \in {"media", "clear"} /\ outs[k][j].type \in {"media", "clear"})
            => outs[k][i].id < outs[k][j].id

\* C12 as stated: an agent interruption always writes exactly one clear frame
\* with the client's streamSid to the signaling socket.
C12_ClearAlways ==
    [][\A c \in ClientIds : AgentEvent(c, "interruption", 0) =>
            twilioOut' = [twilioOut EXCEPT ![clients[c].twilioSocket] =
                              Append(@, Frame("clear", clients[c].streamSid, nagent + 1))]]_vars

\* C12 amended: an agent interruption writes exactly one clear frame with the
\* client's streamSid to the signaling socket when that socket is open, and
\* nothing when it has closed; the media and clear frames on a signaling
\* socket stand in the order of their agent events, so that audio received
\* before the interruption is never written after the clear.
C12_OneClearInOrder ==
    [][/\ \A c \in ClientIds : AgentEvent(c, "interruption", 0) =>
              /\ twilioOut' = [twilioOut EXCEPT ![clients[c].twilioSocket] =
                    IF conn[clients[c].twilioSocket].readyState = "OPEN"
                    THEN Append(@, Frame("clear", clients[c].streamSid, nagent + 1))
                    ELSE @]
              /\ agentOut' = agentOut
       /\ RelayOrder(twilioOut')]_vars

\* C12 witness: an audio event and then an interruption were relayed
C12_Witness ==
    /\ lastEvent.kind = "message" /\ lastEvent.type = "interruption"
    /\ \E k \in Conns :
           /\ Len(twilioOut[k]) = 2
           /\ twilioOut[k][1].type = "media"
           /\ twilioOut[k][2].type = "clear"

\* the state a ping handler must leave alone
PingLeaves == <<activeConnections, conn, clients, twilioOut, nframes, crashed, inbound, readyAt>>

\* C13 as stated: an agent ping with event_id id always writes exactly one
\* pong with that id to the agent socket and changes nothing else.
C13_PongAlways ==
    [][\A c \in ClientIds : \A id \in PingIds : AgentEvent(c, "ping", id) =>
            /\ agentOut' = [agentOut EXCEPT ![c] =
                   Append(@, [type |-> "pong", sid |-> clients[c].streamSid, id |-> id])]
            /\ UNCHANGED PingLeaves]_vars

\* C13 amended: an agent ping with event_id id writes exactly one pong with
\* that id to the agent socket while the client still holds its open socket,
\* and none once the conversation was ended; in both cases no frame goes to a
\* signaling socket and registry, ready flags and queues are unchanged.
C13_OnePong ==
    [][\A c \in ClientIds : \A id \in PingIds : AgentEvent(c, "ping", id) =>
            /\ agentOut' = [agentOut EXCEPT ![c] =
                   IF clients[c].ws /\ clients[c].readyState = "OPEN"
                   THEN Append(@, [type |-> "pong", sid |-> clients[c].streamSid, id |-> id])
                   ELSE @]
            /\ UNCHANGED PingLeaves]_vars

\* C13 witness: the ping with event_id 2 was answered
C13_Witness ==
    /\ lastEvent.kind = "message" /\ lastEvent.type = "ping" /\ lastEvent.id = 2
    /\ LET out == agentOut[lastEvent.who]
       IN  /\ out # << >>
           /\ out[Len(out)].type = "pong"
           /\ out[Len(out)].id = 2

\* everything but the record of the last event
BridgeState == <<activeConnections, conn, clients, agentOut, twilioOut, nframes, nagent,
                 credsOk, crashed, inbound, readyAt>>

\* C14: a frame that is not JSON, on a signaling socket or on an agent socket,
\* is discarded: registry entry, ready flag, queue, both sockets and the frames
\* written stay as they were, so the frames that follow meet the same state.
C14_MalformedDiscarded ==
    [][(\/ lastEvent'.kind = "malformed"
        \/ lastEvent'.kind = "message" /\ lastEvent'.type = "malformed")
            => UNCHANGED BridgeState]_vars

\* C14 witness: a malformed frame arrived on the signaling socket of a
\* streaming session
C14_Witness ==
    /\ lastEvent.kind = "malformed"
    /\ \E s \in Sids : Streaming(s) /\ activeConnections[s].twilioSocket = lastEvent.who

\* C15: at every moment the pending-audio queue of a registered session holds
\* at most QueueCap (50) frames, however many media frames arrive while the
\* agent is unreachable.
C15_QueueBounded ==
    \A s \in DOMAIN activeConnections : Len(activeConnections[s].audioQueue) <= QueueCap

\* C15 witness: more than QueueCap frames arrived for a session that is not
\* ready, and its queue is full
C15_Witness ==
    \E s \in DOMAIN activeConnections :
        /\ ~activeConnections[s].isReady
        /\ Len(inbound[s]) > QueueCap
        /\ Len(activeConnections[s].audioQueue) = QueueCap

\* C16: when more than QueueCap (50) media frames have arrived for a session
\* that is not ready yet, its pending-audio queue is the last QueueCap of
\* them, in arrival order.
C16_QueueIsLastFifty ==
    \A s \in DOMAIN activeConnections :
        (~activeConnections[s].isReady /\ Len(inbound[s]) > QueueCap) =>
            activeConnections[s].audioQueue = LastN(inbound[s], QueueCap)

\* the payload ids of the audio frames written to any agent socket
Delivered(outs) == UNION {{outs[c][i].id : i \in {j \in DOMAIN outs[c] : outs[c][j].type = "audio"}} : c \in DOMAIN outs}

\* the payload ids waiting in the queue of s
Queued(s) == {activeConnections[s].audioQueue[i] : i \in DOMAIN activeConnections[s].audioQueue}

\* C17: the media frames a session received before its agent connect failed
\* (they wait in its queue; its start promise was rejected) are never written
\* to an agent socket afterwards.
C17_NoDeliveryAfterFailure ==
    [][\A s \in Sids :
            (Has(s) /\ clients[ClientOf(s)].promise = "rejected")
                => Queued(s) \cap Delivered(agentOut') = {}]_vars

\* C18: without agent credentials a start frame ends its own session and
\* nothing else: no agent socket is made, no id stays in the registry after
\* the start handler, and the process keeps running.
C18_NoCredentialsEndsSession ==
    ~credsOk =>
        /\ \A c \in ClientIds : ~clients[c].ws /\ clients[c].readyState = "NONE"
        /\ DOMAIN activeConnections = {}
        /\ ~crashed

\* the handler of socket k resolves no session: no start frame has set its
\* streamSid, or the id it holds is not in the registry
NoSession(k) == conn[k].streamSid = NoSid \/ ~Has(conn[k].streamSid)

\* C19: a media or stop frame that resolves no session is discarded: nothing
\* is written to an agent socket and the registry, as all other state, is
\* left as it was.
C19_OrphanFrameDiscarded ==
    [][\A k \in Conns :
            (lastEvent'.kind \in {"media", "stop"} /\ lastEvent'.who = k /\ NoSession(k))
                => UNCHANGED BridgeState]_vars

\* C19 witness: a media frame with a payload arrived after its session was
\* removed while the session's agent socket had not closed yet
C19_Witness ==
    /\ lastEvent.kind = "media" /\ lastEvent.type = "payload"
    /\ conn[lastEvent.who].streamSid \in Sids
    /\ NoSession(lastEvent.who)
    /\ \E c \in ClientIds : clients[c].readyState \in {"OPEN", "CLOSING"}

\* the agent handshake of a client has completed: its socket exists, 'open'
\* has been handled and the socket is still open
Handshaken(cl) == cl.isConnected /\ cl.ws /\ cl.readyState = "OPEN"

\* C20: a media step, which calls sendAudio on the client of its session,
\* writes no frame to the agent socket of a client whose handshake has not
\* completed, changes nothing of that client and raises no exception.
C20_EarlySendAudioNoOp ==
    [][nframes' # nframes =>
          /\ \A c \in ClientIds :
                 ~Handshaken(clients[c]) =>
                     agentOut'[c] = agentOut[c] /\ clients'[c] = clients[c]
          /\ crashed' = crashed]_vars

\* C20 witness: a media frame was passed to sendAudio while no agent socket
\* had opened yet, one of them still connecting
C20_Witness ==
    /\ nframes >= 1
    /\ \A c \in ClientIds : clients[c].readyState \in {"NONE", "CONNECTING"}
    /\ \E c \in ClientIds :
           /\ clients[c].readyState = "CONNECTING"
           /\ Has(clients[c].streamSid)
           /\ activeConnections[clients[c].streamSid].elevenLabsClient = c
           /\ agentOut[c] = << >>

(***************************************************************************)
(* The ElevenLabsClient of dist/services/elevenlabs.js under any caller:   *)
(* the events of the cleanupConnection variant, and besides them calls of  *)
(* endConversation on a client at any time, in whatever state its agent    *)
(* socket is (never made, connecting, open, closing, closed).              *)
(***************************************************************************)
MaxEndCalls == 2     \* calls of endConversation by the outside caller, per client

\* one call of client.endConversation(): the agent socket is closed or
\* terminated and forgotten, then the completion mark is sent
EndCall(c) ==
    /\ ~crashed
    /\ c \in 1..Len(clients)
    /\ clients[c].endCalls < MaxEndCalls
    /\ clients' = [clients EXCEPT ![c] = endConversationSvc(@)]
    /\ twilioOut' = MarkSent(conn, twilioOut, clients[c])
    /\ UNCHANGED <<activeConnections, conn, agentOut, nframes, nagent, credsOk, crashed,
                   inbound, readyAt>>

NextEnd ==
    \/ \E k \in Conns, sid \in FreshSids \cup {NoSid}, callSidOk \in BOOLEAN :
           CleanupOnStart(k, sid, callSidOk, FALSE) /\ UNCHANGED lastEvent
    \/ \E k \in Conns, hasPayload \in BOOLEAN : CleanupOnMedia(k, hasPayload) /\ UNCHANGED lastEvent
    \/ \E k \in Conns : CleanupOnStop(k) /\ UNCHANGED lastEvent
    \/ \E k \in Conns : OnMalformed(k) /\ UNCHANGED lastEvent
    \/ \E k \in Conns : CleanupOnClose(k) /\ UNCHANGED lastEvent
    \/ \E k \in Conns : CleanupOnError(k) /\ UNCHANGED lastEvent
    \/ \E c \in 1..MaxClients : SvcOpen(c) /\ UNCHANGED lastEvent
    \/ \E c \in 1..MaxClients : SvcTimeout(c) /\ UNCHANGED lastEvent
    \/ \E c \in 1..MaxClients : SvcError(c) /\ UNCHANGED lastEvent
    \/ \E c \in 1..MaxClients : SvcClose(c) /\ UNCHANGED lastEvent
    \/ \E c \in 1..MaxClients, t \in SvcMsgTypes : SvcMessage(c, t) /\ UNCHANGED lastEvent
    \/ \E c \in 1..MaxClients : EndCall(c) /\ UNCHANGED lastEvent

SpecEnd == Init /\ [][NextEnd]_vars

\* C21: endConversation raises nothing, and a call on a client that has been
\* ended before writes no frame on either side and changes nothing of the
\* client (endCalls, which counts the calls, set aside).
C21_EndConversationIdempotent ==
    [][\A c \in ClientIds :
           (clients'[c].endCalls = clients[c].endCalls + 1) =>
               /\ crashed' = crashed
               /\ clients[c].endCalls >= 1 =>
                      /\ agentOut' = agentOut
                      /\ twilioOut' = twilioOut
                      /\ clients'[c] = [clients[c] EXCEPT !.endCalls = @ + 1]]_vars

\* the agent sockets, connecting or open, of the clients made for id s
AgentConnections(s) ==
    {c \in ClientIds : clients[c].streamSid = s /\ clients[c].readyState \in {"CONNECTING", "OPEN"}}

\* C22: at any time at most one agent socket, connecting or open, exists
\* for a session id, repeated start frames included.
C22_OneAgentConnectionPerSession ==
    \A s \in Sids : Cardinality(AgentConnections(s)) <= 1

(***************************************************************************)
(* Two calls side by side in the queueing variant: two signaling sockets,  *)
(* socket 1 starting session S1 and socket 2 session S2, one accepted      *)
(* start frame each.  Start frames that fail validation for want of a     *)
(* callSid arrive at any time and name either id.  The agent sockets       *)
(* deliver no messages.  The handled event is on record in lastEvent.     *)
(***************************************************************************)
PairSockets == {1, 2}
MaxPairFrames == 1     \* inbound media frames with a payload and a registered session

\* the id of the call that socket k carries
OwnSid(k) == IF k = 1 THEN "S1" ELSE "S2"

InitPair ==
    /\ activeConnections = << >>
    /\ conn = [k \in PairSockets |-> [readyState |-> "OPEN", streamSid |-> NoSid]]
    /\ clients = << >>
    /\ agentOut = << >>
    /\ twilioOut = [k \in PairSockets |-> << >>]
    /\ nframes = 0
    /\ nagent = 0
    /\ credsOk = TRUE
    /\ crashed = FALSE
    /\ inbound = [s \in Sids |-> << >>]
    /\ readyAt = [s \in Sids |-> -1]
    /\ lastEvent = Ev("none", 0, "", 0)

\* the start frames of the two calls: a valid one names the socket's own id
\* and comes once per socket
PairStart(k, sid, callSidOk) ==
    \/ ~callSidOk
    \/ sid = OwnSid(k) /\ \A c \in 1..Len(clients) : clients[c].twilioSocket # k

NextPair ==
    \/ \E k \in Conns, sid \in Sids, callSidOk \in BOOLEAN :
           /\ PairStart(k, sid, callSidOk)
           /\ OnStartB(k, sid, callSidOk, FALSE, MaxClients)
           /\ lastEvent' = Ev("start", k, sid, 0)
    \/ \E k \in Conns :
           OnMediaB(k, TRUE, MaxPairFrames) /\ lastEvent' = Ev("media", k, "payload", 0)
    \/ \E k \in Conns : OnStop(k) /\ lastEvent' = Ev("stop", k, "", 0)
    \/ \E k \in Conns : OnMalformed(k) /\ lastEvent' = Ev("malformed", k, "", 0)
    \/ \E k \in Conns : OnClose(k) /\ lastEvent' = Ev("close", k, "", 0)
    \/ \E k \in Conns : OnError(k) /\ lastEvent' = Ev("error", k, "", 0)
    \/ \E c \in 1..Len(clients), ok \in BOOLEAN :
           FetchDone(c, ok) /\ lastEvent' = Ev("fetch", c, IF ok THEN "ok" ELSE "failed", 0)
    \/ \E c \in 1..Len(clients) : AgentOpen(c) /\ lastEvent' = Ev("open", c, "", 0)
    \/ \E c \in 1..Len(clients) : Timeout(c) /\ lastEvent' = Ev("timeout", c, "", 0)
    \/ \E c \in 1..Len(clients) : AgentError(c) /\ lastEvent' = Ev("agent error", c, "", 0)
    \/ \E c \in 1..Len(clients) : AgentClose(c) /\ lastEvent' = Ev("agent close", c, "", 0)

SpecPair == InitPair /\ [][NextPair]_vars

\* what belongs to the session of id s: its registry entry with ready flag
\* and queue, and the clients made for it with the frames written to them
SessionView(s) ==
    <<IF Has(s) THEN <<activeConnections[s]>> ELSE << >>,
      [c \in {d \in ClientIds : clients[d].streamSid = s} |-> <<clients[c], agentOut[c]>>]>>

\* event e is a failure of the call on socket k: a frame that does not parse,
\* the socket's close or error, or its agent side failing to connect or closing
FailureOf(k, e) ==
    \/ e.kind \in {"malformed", "close", "error"} /\ e.who = k
    \/ /\ e.kind \in {"timeout", "agent error", "agent close"} \/ (e.kind = "fetch" /\ e.type = "failed")
       /\ clients[e.who].twilioSocket = k

\* C23: a failure of one call changes nothing of the session of the other
\* call, which has a different id: not its registry entry, ready flag or
\* queue, nor its agent connection.
C23_FailureIsolated ==
    [][\A k \in Conns :
           (FailureOf(k, lastEvent') /\ \E c \in ClientIds : clients[c].twilioSocket = k)
               => \A s \in Sids \ {OwnSid(k)} : SessionView(s)' = SessionView(s)]_vars

\* the clients of id s for which an agent socket has been made
SocketsMade(s) ==
    {c \in ClientIds : clients[c].streamSid = s /\ clients[c].readyState # "NONE"}

\* C24: once the agent socket of a registered session has failed or closed,
\* no further agent socket is made for that session.
C24_NoRetry ==
    [][\A s \in Sids :
           (Has(s) /\ clients[ClientOf(s)].readyState = "CLOSED")
               => SocketsMade(s)' = SocketsMade(s)]_vars

\* C25: a registered session that has been marked ready is not marked ready
\* a second time, and its queue, emptied when it was marked ready, holds
\* nothing from then on.
C25_ReadyOnce ==
    [][\A s \in Sids :
           (Has(s) /\ readyAt[s] # -1 /\ s \in DOMAIN activeConnections')
               => /\ activeConnections'[s].isReady => activeConnections[s].isReady
                  /\ activeConnections'[s].audioQueue = << >>]_vars

\* C26: a session whose ready flag is set has an empty queue, and a frame
\* is pushed to the queue of a session only while its flag is not set.
C26_ReadyMeansEmptyQueue ==
    [][\A s \in Sids :
           s \in DOMAIN activeConnections' =>
               /\ activeConnections'[s].isReady => activeConnections'[s].audioQueue = << >>
               /\ (Has(s) /\ activeConnections[s].isReady) => activeConnections'[s].audioQueue = << >>]_vars

\* C26 witness: a session was marked ready with a frame in its queue, and
\* its queue is empty now
C26_Witness ==
    \E s \in Sids :
        /\ Has(s) /\ activeConnections[s].isReady
        /\ readyAt[s] >= 1
        /\ activeConnections[s].audioQueue = << >>

\* C27: a media frame with a payload that arrives for a streaming session
\* (ready, agent socket open) is written to that session's agent socket in
\* the same step, as one audio frame carrying the payload, and is not put in
\* the queue.
C27_StreamingForwardsAtOnce ==
    [][\A k \in Conns :
           LET s == conn[k].streamSid
           IN  (lastEvent' = Ev("media", k, "payload", 0) /\ s # NoSid /\ Streaming(s))
                   => LET c == ClientOf(s)
                      IN  /\ Len(agentOut'[c]) = Len(agentOut[c]) + 1
                          /\ SubSeq(agentOut'[c], 1, Len(agentOut[c])) = agentOut[c]
                          /\ agentOut'[c][Len(agentOut'[c])].type = "audio"
                          /\ agentOut'[c][Len(agentOut'[c])].id = nframes'
                          /\ nframes' = nframes + 1
                          /\ activeConnections' = activeConnections
                          /\ activeConnections[s].audioQueue = << >>]_vars

\* C27 witness: a frame that arrived after its session was marked ready is
\* the audio frame on the session's open agent socket
C27_Witness ==
    \E s \in Sids :
        /\ Streaming(s)
        /\ lastEvent.kind = "media" /\ lastEvent.type = "payload"
        /\ readyAt[s] = 0
        /\ nframes = 1
        /\ AudioIds(agentOut[ClientOf(s)]) = <<1>>

\* the agent 'audio' events that carry a payload: under audio.chunk, or
\* under audio_event.audio_base_64
AudioEvents == {"audio_chunk", "audio_event"}

\* C28 as stated: every agent audio event with a payload writes exactly one
\* media frame with that payload and the client's streamSid to the signaling
\* socket.
C28_AudioAlways ==
    [][\A c \in ClientIds : \A t \in AudioEvents : AgentEvent(c, t, 0) =>
            twilioOut' = [twilioOut EXCEPT ![clients[c].twilioSocket] =
                              Append(@, [type |-> "media", sid |-> clients[c].streamSid,
                                         id |-> nagent'])]]_vars

\* C28 amended: an agent audio event with a payload, under either field,
\* writes in the same step exactly one media frame with that payload and the
\* client's streamSid to the signaling socket when that socket is open, and
\* nothing when it has closed; nothing goes to an agent socket.
C28_OneMediaPerAudio ==
    [][\A c \in ClientIds : \A t \in AudioEvents : AgentEvent(c, t, 0) =>
            /\ nagent' = nagent + 1
            /\ twilioOut' = [twilioOut EXCEPT ![clients[c].twilioSocket] =
                   IF conn[clients[c].twilioSocket].readyState = "OPEN"
                   THEN Append(@, [type |-> "media", sid |-> clients[c].streamSid,
                                   id |-> nagent'])
                   ELSE @]
            /\ agentOut' = agentOut]_vars

\* C28 witness: a payload under audio.chunk and then one under
\* audio_event.audio_base_64 were relayed to the open signaling socket
C28_Witness ==
    /\ lastEvent.kind = "message" /\ lastEvent.type = "audio_event"
    /\ \E k \in Conns :
           /\ conn[k].readyState = "OPEN"
           /\ Len(twilioOut[k]) = 2
           /\ twilioOut[k][1] = [type |-> "media", sid |-> "S1", id |-> 1]
           /\ twilioOut[k][2] = [type |-> "media", sid |-> "S1", id |-> 2]

\* C29: the media frames on a signaling socket stand in the order in which
\* their audio events were received from the agent socket.
C29_AgentAudioInOrder ==
    \A k \in Conns : \A i, j \in DOMAIN twilioOut[k] :
        (i < j /\ twilioOut[k][i].type = "media" /\ twilioOut[k][j].type = "media")
            => twilioOut[k][i].id < twilioOut[k][j].id

\* C29 witness: two audio events were relayed, the later one under audio.chunk
C29_Witness ==
    /\ lastEvent.kind = "message" /\ lastEvent.type = "audio_chunk"
    /\ nagent = 2
    /\ \E k \in Conns :
           /\ Len(twilioOut[k]) = 2
           /\ twilioOut[k][1].type = "media"
           /\ twilioOut[k][2].type = "media"

\* the agent events that are only logged
LoggedEvents == {"conversation_initiation_metadata", "agent_response", "user_transcript"}

\* C30: handling an initiation-metadata, agent-response or transcript event
\* writes no frame to a signaling or agent socket and leaves the registry,
\* with ready flags and queues, and all other state as it was.
C30_LoggedEventsInert ==
    [][\A c \in ClientIds : \A t \in LoggedEvents :
           AgentEvent(c, t, 0) => UNCHANGED BridgeState]_vars

\* C30 witness: a transcript event was handled for a session that is
\* streaming and has relayed audio in both directions
C30_Witness ==
    /\ lastEvent.kind = "message" /\ lastEvent.type = "user_transcript"
    /\ \E s \in Sids :
           /\ Streaming(s)
           /\ AudioIds(agentOut[ClientOf(s)]) # << >>
           /\ twilioOut[activeConnections[s].twilioSocket] # << >>

(***************************************************************************)
(* One call of the queueing variant whose start frame may carry custom     *)
(* parameters (prompt, first_message) or none: the events of the call up   *)
(* to and around the opening of its agent socket.  The agent socket        *)
(* delivers no messages.                                                   *)
(***************************************************************************)
MaxOpenFrames == 2     \* inbound media frames with a payload and a registered session

NextOpen ==
    \/ \E k \in Conns, sid \in {"S1", NoSid}, callSidOk \in BOOLEAN, custom \in BOOLEAN :
           /\ OneCall(sid, callSidOk)
           /\ OnStartB(k, sid, callSidOk, custom, MaxClients)
           /\ UNCHANGED lastEvent
    \/ \E k \in Conns, hasPayload \in BOOLEAN :
           OnMediaB(k, hasPayload, MaxOpenFrames) /\ UNCHANGED lastEvent
    \/ \E k \in Conns : OnStop(k) /\ UNCHANGED lastEvent
    \/ \E k \in Conns : OnClose(k) /\ UNCHANGED lastEvent
    \/ \E c \in 1..Len(clients), ok \in BOOLEAN : FetchDone(c, ok) /\ UNCHANGED lastEvent
    \/ \E c \in 1..Len(clients) : AgentOpen(c) /\ UNCHANGED lastEvent
    \/ \E c \in 1..Len(clients) : Timeout(c) /\ UNCHANGED lastEvent
    \/ \E c \in 1..Len(clients) : AgentError(c) /\ UNCHANGED lastEvent
    \/ \E c \in 1..Len(clients) : AgentClose(c) /\ UNCHANGED lastEvent

SpecOpen == Init /\ [][NextOpen]_vars

\* the initial configuration of client cl: the prompt and first message of
\* its start frame (1), or the defaults (0)
ConfigOf(cl) == [type |-> "config", sid |-> cl.streamSid, id |-> IF cl.custom THEN 1 ELSE 0]

\* C31: an agent socket that is open has been sent its initial
\* configuration, and the frames written to an agent socket begin with the
\* configuration of its client and hold no second one: the configuration
\* goes out once, ahead of every audio frame, the drained queue included.
C31_HandshakeFirstOnce ==
    \A c \in ClientIds :
        /\ clients[c].readyState = "OPEN" => agentOut[c] # << >>
        /\ agentOut[c] # << >> =>
               /\ agentOut[c][1] = ConfigOf(clients[c])
               /\ \A i \in 2..Len(agentOut[c]) : agentOut[c][i].type # "config"

\* session s runs on signaling socket k: it is registered for k and the
\* handler of k resolves it
RunsOn(s, k) == Has(s) /\ activeConnections[s].twilioSocket = k /\ conn[k].streamSid = s

\* C32: a start frame that is rejected (no client is made for it) creates no
\* registry entry and writes nothing to an agent socket, and a session
\* running on that socket is still the one its handler resolves, so that
\* later media frames reach it and a later stop or close removes it.
C32_RejectedStartDropped ==
    [][\A k \in Conns :
           (lastEvent'.kind = "start" /\ lastEvent'.who = k /\ clients' = clients)
               => /\ activeConnections' = activeConnections
                  /\ agentOut' = agentOut
                  /\ \A s \in Sids : RunsOn(s, k) => conn'[k].streamSid = s]_vars

\* C33: a client whose session was removed from the registry (endConversation
\* has run on it) has no agent socket that is connecting or open: the socket
\* was closed or aborted, or never made, and does not open afterwards.
C33_NoConnectionOutlivesSession ==
    \A c \in ClientIds :
        clients[c].endCalls >= 1 => clients[c].readyState \in {"NONE", "CLOSING", "CLOSED"}

\* the call of SpecOpen with what the runtime is bound to do: a pending
\* request for the signed URL settles, an armed connect timer fires unless
\* it is cleared.  Frames, closes and the agent socket's own events are the
\* peers' and may never come.
SpecOpenFair ==
    /\ SpecOpen
    /\ WF_vars(\E c \in 1..Len(clients), ok \in BOOLEAN : FetchDone(c, ok) /\ UNCHANGED lastEvent)
    /\ WF_vars(\E c \in 1..Len(clients) : Timeout(c) /\ UNCHANGED lastEvent)

\* s is registered and the socket of its registered client is open and connected
OpenRegistered(s) ==
    /\ Has(s)
    /\ clients[ClientOf(s)].ws
    /\ clients[ClientOf(s)].isConnected
    /\ clients[ClientOf(s)].readyState = "OPEN"

\* C34: a registered session whose agent socket is open and connected is
\* marked ready in the end (its queue is sent when it is marked), unless it
\* stops being registered or open: it does not stay open, registered and
\* unready for ever.
C34_OpenLeadsToReady ==
    \A s \in Sids :
        OpenRegistered(s) ~> (~OpenRegistered(s) \/ activeConnections[s].isReady)

\* the call of SpecOpen when its signaling socket is bound to close: the
\* 'close' event of an open socket comes in the end
SpecCloseFair ==
    /\ SpecOpen
    /\ WF_vars(\E k \in Conns : OnClose(k) /\ UNCHANGED lastEvent)

\* C35: when the signaling socket delivers its close in the end, every
\* registered session is removed from the registry in the end, whatever
\* events came before.
C35_RegisteredLeadsToRemoved ==
    \A s \in Sids : Has(s) ~> ~Has(s)

\* the 'open' event of client c's agent socket has been handled: the client
\* is or was connected
Opened(c) ==
    \/ clients[c].isConnected
    \/ clients[c].readyState \in {"OPEN", "CLOSING"}
    \/ \E i \in DOMAIN agentOut[c] : agentOut[c][i].type = "config"

\* C36: a connect timer that fires for a client whose agent socket has
\* opened does nothing: it terminates no socket, drops no socket reference,
\* rejects no promise and touches neither registry nor frames.
C36_TimeoutSparesOpened ==
    [][\A c \in ClientIds :
           (Opened(c) /\ clients[c].timer # "fired" /\ clients'[c].timer = "fired")
               => /\ clients' = [clients EXCEPT ![c].timer = "fired"]
                  /\ UNCHANGED <<activeConnections, conn, agentOut, twilioOut>>]_vars

\* C36 witness: an agent socket opened, its timer was cancelled, and the
\* socket has closed since while its session is still registered
C36_Witness ==
    \E c \in ClientIds :
        /\ Opened(c)
        /\ clients[c].timer = "cleared"
        /\ clients[c].readyState = "CLOSED"
        /\ clients[c].ws
        /\ Has(clients[c].streamSid) /\ ClientOf(clients[c].streamSid) = c

\* C37: a client that is flagged connected holds its socket.
C37_ConnectedHasSocket ==
    \A c \in ClientIds : clients[c].isConnected => clients[c].ws

====
